---- MODULE Spec2Model ----
(***************************************************************************)
(* Model of the bindex index engine (lib/indexdb.js) together with the     *)
(* chain client that feeds it (chainclient.js, the second half of          *)
(* lib/layout.js).                                                         *)
(*                                                                         *)
(* The engine is single-threaded JavaScript: a handler runs without        *)
(* interruption from one `await` to the next.  Every action below is one   *)
(* such synchronous segment: the start of a handler up to its first        *)
(* await, or the resumption of a suspended handler up to its next await    *)
(* (or its end).  A store write takes effect in the step that resumes the  *)
(* handler awaiting it; a chain query is answered from the chain's state   *)
(* at the step that resumes the handler awaiting it.  Suspended handlers   *)
(* resume in any order: the client's `emit` does not wait for the promise  *)
(* an async listener returns.                                              *)
(***************************************************************************)
EXTENDS Integers, Sequences, FiniteSets, Bags, TLC

\* ------------------------------------------------------------------ bounds

\* Highest block height the chain source reaches.
MaxHeight == 2

\* Most handlers a notification finds in flight: a notification is delivered
\* while fewer than MaxTasks handlers are suspended.
MaxTasks == 2

\* ------------------------------------------------------- the block universe

\* Two competing branches above one genesis block.
Branches == {"a", "b"}

\* A block hash: <<height, branch>>.
Genesis == <<0, "a">>

\* consensus.ZERO_HASH, the hash of `new BlockMeta()`.
ZERO_HASH == <<0, "z">>

\* JavaScript `null` where a hash, an entry or a block is expected.
Null == <<-1, "n">>

Blocks == {<<h, br>> : h \in 1..MaxHeight, br \in Branches}

AllBlocks == Blocks \cup {Genesis}

Heights == 0..MaxHeight

\* block.prevBlock
Prev(id) == IF id[1] <= 1 THEN Genesis ELSE <<id[1] - 1, id[2]>>

\* block.txs as the sequence of tx.hash(): every block carries two
\* transactions of its own, <<height, branch, index>>.
Txs(id) == << <<id[1], id[2], 0>>, <<id[1], id[2], 1>> >>

TxHashes == {<<id[1], id[2], i>> : id \in AllBlocks, i \in {0, 1}}

\* A chain entry and a block, as the fields the engine reads.
Entry(id) == [hash |-> id, height |-> id[1]]

Block(id) == [hash |-> id, height |-> id[1], prevBlock |-> Prev(id), txs |-> Txs(id)]

\* Network.magic of the networks an engine can be configured for.
Networks == {"main", "testnet"}

\* A magic is a 32-bit number, written here as its four bytes from the most
\* significant down (0xd9b4bef9, 0x0709110b).
Magic(net) == IF net = "main" THEN <<217, 180, 190, 249>> ELSE <<7, 9, 17, 11>>

\* ---------------------------------------------------------------- records

\* new BlockMeta(): the zero tip.
ZeroTip == [height |-> 0, hash |-> ZERO_HASH]

\* No tip (a task field that is not in use).
NoTip == [height |-> -1, hash |-> Null]

\* BlockMeta.fromEntry(entry)
fromEntry(entry) == [height |-> entry.height, hash |-> entry.hash]

\* BlockMeta.toRaw(): hash, then height.
toRaw(tip) == <<tip.hash, tip.height>>

\* BlockMeta.fromRaw(raw)
fromRaw(raw) == [height |-> raw[2], hash |-> raw[1]]

\* The `h` record is absent.
NoRaw == <<>>

\* TXMeta.fromTX(tx, entry, i): the record kept under t[hash].
fromTX(entry, i) == [hash |-> entry.hash, height |-> entry.height, index |-> i]

\* db.get(t[hash]) found nothing.
NoMeta == [hash |-> Null, height |-> -1, index |-> -1]

\* fromU32(num): four bytes, little endian.
fromU32(num) == <<num[4], num[3], num[2], num[1]>>

\* raw.readUInt32LE(0)
readUInt32LE(raw) == <<raw[4], raw[3], raw[2], raw[1]>>

\* The `O` record is absent.
NoFlag == <<>>

\* ------------------------------------------------------------------ state

VARIABLES
    chain,          \* the chain source's main chain above genesis: Seq(Blocks)
    opened,         \* ChainClient.opened
    pendingConnect, \* 'connect' emits queued by setImmediate
    pendingDisconnect, \* 'disconnect' emits queued by setImmediate
    network,        \* the network the engine is configured for
    life,           \* where open() stands: new, verify, flag, ready, failed, closed
    tip,            \* IndexDB.tip, the in-memory tip
    busy,           \* IndexDB.lock is held
    tasks,          \* bag of suspended handlers
    txdb,           \* store: t[hash] -> record
    dbTip,          \* store: the `h` record (raw), or NoRaw
    flag,           \* store: the `O` record (raw), or NoFlag
    ev,             \* what the last step did (observation only)
    notified,       \* the blocks notified by 'block connect' (observation only)
    iso,            \* the handlers last run on their own (observation only)
    errored         \* an 'error' event was emitted since construction (observation only)

vars == <<chain, opened, pendingConnect, pendingDisconnect, network, life, tip, busy, tasks,
          txdb, dbTip, flag, ev, notified, iso, errored>>

store == <<txdb, dbTip, flag>>

\* The emits that setImmediate has queued.
queued == <<pendingConnect, pendingDisconnect>>

\* A suspended handler.  kind: which listener of _bind started it (or
\* "detached" for the setTip that getTip starts without awaiting it).
\* pc: the await it is suspended at.  rank: for a 'block connect', 'block
\* disconnect' or 'chain reset' handler, how many such handlers that were
\* notified before it are still in flight (observation only).  lk: for such
\* a handler, whether the resync lock was held when it was notified and has
\* been held ever since (observation only).
Task(kind, pc) ==
    [kind |-> kind, pc |-> pc, e |-> Null, b |-> Null, st |-> NoTip,
     tgt |-> -1, pos |-> Null, rh |-> -1, ht |-> -1, rank |-> -1, lk |-> FALSE]

\* No key: the step was not a read of the facade.
NoKey == <<-1, "none", -1>>

\* What a step did: the function it entered or resumed, the height it was
\* about, how that went, where a failure went ("emit": the engine's 'error'
\* event; "reject": the caller's promise; "throw": the caller), the kind,
\* rank and lk of the handler that made the step ("none": no handler's),
\* for a read of the facade the key it asked for, and for a construction
\* the `network` of the options it was given.
Ev(op, h, res, chan) ==
    [op |-> op, h |-> h, res |-> res, chan |-> chan,
     who |-> "none", rank |-> -1, lk |-> FALSE, key |-> NoKey, opt |-> "none"]

Errors == {"genesis", "mismatch", "future", "assert", "type", "network", "closed"}

\* The store has been closed by close(): db.get() and db.batch() throw.
Closed == life = "closed"

\* ------------------------------------------------- chain source queries

\* chain.tip
ChainTip == IF chain = <<>> THEN Genesis ELSE chain[Len(chain)]

\* ChainClient.getEntry(height): the main-chain entry at that height.
getEntry(height) ==
    IF height = 0 THEN Genesis
    ELSE IF height \in 1..Len(chain) THEN chain[height]
    ELSE Null

\* ChainClient.getBlock(hash): any block the chain source stores.
getBlock(hash) == IF hash \in AllBlocks THEN hash ELSE Null

\* IndexDB.getMeta(hash)
getMeta(hash) == txdb[hash]

\* ------------------------------------------- synchronous code segments
\* Each operator is the code a handler runs between two awaits.  It yields
\* [t |-> the handler as it suspends next (pc "done" when it ends),
\*  res |-> how the call went, err |-> whether it threw].

Run(t, res) == [t |-> t, res |-> res, err |-> FALSE]

Fin(t, res) == [t |-> [t EXCEPT !.pc = "done"], res |-> res, err |-> FALSE]

Throw(t, res) == [t |-> [t EXCEPT !.pc = "done"], res |-> res, err |-> TRUE]

\* A variant of ScanNext whose loop never runs.
ScanNextNever(t, ht, res) == Fin(t, res)

\* scan(): the loop test of `for (height...; height <= tip.height; height++)`.
ScanNext(t, ht, res) ==
    IF ht <= t.rh
    THEN Run([t EXCEPT !.pc = "sc_getEntry", !.ht = ht], res)
    ELSE Fin(t, res)

\* A variant of AfterIndex that leaves scan's loop after its first block.
AfterIndexOnce(t, res) == Fin(t, res)

\* indexBlock returned to its caller.
AfterIndex(t, res) ==
    IF t.kind = "blockConnect" THEN Fin(t, res) ELSE ScanNext(t, t.ht + 1, res)

\* A variant of IndexSkips that skips no block.
IndexSkipsNone(height, mt) == FALSE

\* indexBlock: `tip.height < this.tip.height`
IndexSkips(height, mt) == height < mt.height

\* indexBlock(entry, block) up to `await b.write()`.
indexBlockCall(t, mt, e, b) ==
    IF IndexSkips(Entry(e).height, mt) THEN AfterIndex(t, "skip")
    ELSE IF Closed THEN Throw(t, "closed")
    ELSE IF b = Null THEN Throw(t, "type")
    ELSE Run([t EXCEPT !.pc = "ib_write", !.e = e, !.b = b,
                       !.st = fromEntry(Entry(e))], "begun")

\* unindexBlock returned to its caller: rollback goes on to
\* `prev = block.prevBlock` and fetches that block.
AfterUnindex(t, res) ==
    IF t.kind = "blockDisconnect" THEN Fin(t, res)
    ELSE Run([t EXCEPT !.pc = "rb_getBlock", !.pos = Block(t.b).prevBlock], res)

\* A variant of UnindexGuard without the height-mismatch guard.
UnindexGuardNoMismatch(height, mt) ==
    IF height = 0 THEN "genesis"
    ELSE IF height > mt.height THEN "skip"
    ELSE "begun"

\* unindexBlock: the three guards, in the code's order.
UnindexGuard(height, mt) ==
    IF height = 0 THEN "genesis"
    ELSE IF height > mt.height THEN "skip"
    ELSE IF height /= mt.height THEN "mismatch"
    ELSE "begun"

\* unindexBlock(entry, block) up to `await this.client.getEntry(...)`.
unindexBlockCall(t, mt, e, b) ==
    LET g == UnindexGuard(Entry(e).height, mt) IN
    IF g = "skip" THEN AfterUnindex([t EXCEPT !.b = b], g)
    ELSE IF g /= "begun" THEN Throw(t, g)
    ELSE Run([t EXCEPT !.pc = "ub_getEntry", !.e = e, !.b = b], g)

\* rollback returned to its caller: scan starts its loop at this.tip.height + 1.
AfterRollback(t, mt, res) ==
    IF t.kind = "chainReset" THEN Fin(t, res) ELSE ScanNext(t, mt.height + 1, res)

\* A variant of RollbackGuard without the same-height return.
RollbackGuardNoSame(height, mt) ==
    IF height > mt.height THEN "future" ELSE "begun"

\* rollback: the two guards.
RollbackGuard(height, mt) ==
    IF height > mt.height THEN "future"
    ELSE IF height = mt.height THEN "same"
    ELSE "begun"

\* A variant of rollbackCall that goes on where the code throws.
rollbackCallNoThrow(t, mt, height) ==
    LET g == RollbackGuard(height, mt) IN
    IF g = "same" THEN AfterRollback(t, mt, g)
    ELSE Run([t EXCEPT !.pc = "rb_getEntry", !.tgt = height], g)

\* rollback(height) up to `await this.client.getEntry(height)`.
rollbackCall(t, mt, height) ==
    LET g == RollbackGuard(height, mt) IN
    IF g = "future" THEN Throw(t, g)
    ELSE IF g = "same" THEN AfterRollback(t, mt, g)
    ELSE Run([t EXCEPT !.pc = "rb_getEntry", !.tgt = height], g)

\* ------------------------------------------------------ applying a step

InFlight == BagCardinality(tasks)

\* No handler: the step starts a new one.
NoTask == Task("none", "none")

\* The bag of handlers after `old` (NoTask: a new handler) made the step
\* with outcome o, and `extra` were started on the side.  A `connect`
\* handler that ends runs `finally { unlock() }`: bmutex hands the lock to
\* the oldest waiter, which goes on into getTip's `await this.db.get(...)`.
Holds(t) == t.kind = "connect" /\ t.pc /= "lock"

\* The observations of a handler in flight once a handler of rank r ended,
\* which released the lock if rel.
Older(t, r, rel) ==
    [t EXCEPT !.rank = IF r >= 0 /\ @ > r THEN @ - 1 ELSE @, !.lk = @ /\ ~rel]

Rerank(B, r, rel) ==
    LET S == BagToSet(B) IN
    [u \in {Older(t, r, rel) : t \in S} |->
        CopiesIn(CHOOSE t \in S : Older(t, r, rel) = u, B)]

NextTasks(old, o, extra) ==
    LET base == IF old = NoTask THEN tasks ELSE tasks (-) SetToBag({old})
        ended == o.t.pc = "done"
        kept == IF ended THEN Rerank(base, o.t.rank, Holds(o.t))
                ELSE base (+) SetToBag({o.t})
        waiter == Task("connect", "lock")
        handoff == ended /\ Holds(o.t) /\ BagIn(waiter, kept)
    IN  (IF handoff
         THEN (kept (-) SetToBag({waiter})) (+) SetToBag({Task("connect", "gt_get")})
         ELSE kept) (+) extra

\* A variant of NextBusy for a syncNode without `finally { unlock() }`.
NextBusyKept(o) == busy \/ Holds(o.t)

\* IndexDB.lock once the step is done: a handler that ends holding it
\* releases it, to the oldest waiter if there is one.
NextBusy(o) ==
    IF o.t.pc = "done" /\ Holds(o.t)
    THEN BagIn(Task("connect", "lock"), tasks)
    ELSE busy \/ Holds(o.t)

\* No record in the store.
EmptyTx == [x \in TxHashes |-> NoMeta]

\* `notified` while the only handlers started since the engine was first
\* constructed are 'block connect' ones of strictly increasing heights.
Impure == [pure |-> FALSE, seen |-> {}, last |-> -1]

NextNotified(old, o, arg) ==
    IF old /= NoTask THEN notified
    ELSE IF o.t.kind = "blockConnect" /\ notified.pure /\ arg[1] > notified.last
    THEN [pure |-> TRUE, seen |-> notified.seen \cup {arg}, last |-> arg[1]]
    ELSE Impure

\* `iso`: up to two handlers that ran one after the other, each started
\* with no other handler in flight and nothing else happening in between;
\* pre and pretx are the tip and the records before the first of them.
IsoIdle == [n |-> 0, running |-> FALSE, ops |-> <<>>, pre |-> NoTip, pretx |-> EmptyTx]

NextIso(old, o, nt, arg) ==
    LET ended == o.t.pc = "done"
        rec == [op |-> o.t.kind, arg |-> arg, res |-> IF ended THEN o.res ELSE "run"]
    IN  IF old = NoTask
        THEN IF tasks /= EmptyBag THEN IsoIdle
             ELSE IF iso.n = 1 /\ ~iso.running
             THEN [iso EXCEPT !.n = 2, !.ops = Append(@, rec), !.running = nt /= EmptyBag]
             ELSE [n |-> 1, running |-> nt /= EmptyBag, ops |-> <<rec>>,
                   pre |-> tip, pretx |-> txdb]
        ELSE IF ~iso.running THEN IsoIdle
        ELSE [iso EXCEPT !.running = nt /= EmptyBag,
                         !.ops[iso.n].res = IF ended /\ o.t.kind /= "detached"
                                            THEN o.res ELSE @]

\* A variant of Caught for a listener without try/catch.
Uncaught(err) == "none"

\* Where a handler's failure goes: the listener's try/catch emits it as
\* the engine's 'error' event.
Caught(err) == IF err THEN "emit" ELSE "none"

\* A handler's step: the tasks, the lock and the observations.
Step(old, o, extra, op, arg) ==
    /\ tasks' = NextTasks(old, o, extra)
    /\ busy' = NextBusy(o)
    /\ ev' = [Ev(op, arg[1], o.res, Caught(o.err))
                 EXCEPT !.who = o.t.kind, !.rank = o.t.rank, !.lk = o.t.lk]
    /\ notified' = NextNotified(old, o, arg)
    /\ iso' = NextIso(old, o, NextTasks(old, o, extra), arg)
    /\ errored' = (errored \/ o.err)

\* A step that is no handler's.
Other(e) ==
    /\ ev' = e
    /\ iso' = IsoIdle
    /\ notified' = notified
    /\ errored' = errored

Running(pc) == {t \in BagToSet(tasks) : t.pc = pc}

\* --------------------------------------------------------------- the store

\* indexBlock's batch: one put per transaction of the block.
IndexPuts(db, e, b) ==
    [x \in TxHashes |->
        IF \E i \in 1..Len(Block(b).txs) : Block(b).txs[i] = x
        THEN fromTX(Entry(e), (CHOOSE i \in 1..Len(Block(b).txs) : Block(b).txs[i] = x) - 1)
        ELSE db[x]]

\* A variant of UnindexDels that deletes the block's first transaction only.
UnindexDelsFirst(db, b) == [db EXCEPT ![Block(b).txs[1]] = NoMeta]

\* unindexBlock's batch: one del per transaction of the block.
UnindexDels(db, b) ==
    [x \in TxHashes |->
        IF \E i \in 1..Len(Block(b).txs) : Block(b).txs[i] = x THEN NoMeta ELSE db[x]]

\* ------------------------------------------------------------------- Init

Init ==
    /\ chain = <<>>
    /\ opened = FALSE
    /\ pendingConnect = 0
    /\ pendingDisconnect = 0
    /\ network = "main"
    /\ life = "new"
    /\ tip = ZeroTip
    /\ busy = FALSE
    /\ tasks = EmptyBag
    /\ txdb = EmptyTx
    /\ dbTip = NoRaw
    /\ flag = NoFlag
    /\ ev = Ev("init", -1, "ok", "none")
    /\ notified = [pure |-> TRUE, seen |-> {}, last |-> -1]
    /\ iso = IsoIdle
    /\ errored = FALSE

\* -------------------------------------------------------------- lifecycle

\* open(): db.open() and db.verify() are done; verifyNetwork awaits db.get(O).
Open ==
    /\ life = "new"
    /\ life' = "verify"
    /\ Other(Ev("open", -1, "begun", "none"))
    /\ UNCHANGED <<chain, opened, queued, network, tip, busy, tasks, store>>

\* A variant of ClientOpen without the assert.
ClientOpenUnguarded(op) ==
    /\ opened' = TRUE
    /\ pendingConnect' = pendingConnect + 1
    /\ pendingDisconnect' = pendingDisconnect
    /\ Other(Ev(op, -1, "ok", "none"))

\* ChainClient.open(), reached through IndexDB.connect(): the 'connect'
\* emit is queued with setImmediate.
ClientOpen(op) ==
    IF opened
    THEN /\ Other(Ev(op, -1, "assert", "reject"))
         /\ UNCHANGED <<opened, queued>>
    ELSE /\ opened' = TRUE
         /\ pendingConnect' = pendingConnect + 1
         /\ pendingDisconnect' = pendingDisconnect
         /\ Other(Ev(op, -1, "ok", "none"))

\* A variant of MagicDiffers that accepts any flag.
MagicNeverDiffers(raw, net) == FALSE

\* verifyNetwork: `magic !== this.network.magic`
MagicDiffers(raw, net) == readUInt32LE(raw) /= Magic(net)

\* verifyNetwork() after `await this.db.get(layout.O.build())`, and on into
\* connect() when the flag is there and matches.  `this.network.magic` is a
\* TypeError when the engine has no network object.
VerifyNetwork ==
    /\ life = "verify"
    /\ IF network \notin Networks
       THEN /\ life' = "failed"
            /\ Other(Ev("verifyNetwork", -1, "type", "reject"))
            /\ UNCHANGED <<opened, queued>>
       ELSE IF flag = NoFlag
       THEN /\ life' = "flag"
            /\ Other(Ev("verifyNetwork", -1, "write", "none"))
            /\ UNCHANGED <<opened, queued>>
       ELSE IF MagicDiffers(flag, network)
       THEN /\ life' = "failed"
            /\ Other(Ev("verifyNetwork", -1, "network", "reject"))
            /\ UNCHANGED <<opened, queued>>
       ELSE /\ life' = "ready"
            /\ ClientOpen("verifyNetwork")
    /\ UNCHANGED <<chain, network, tip, busy, tasks, store>>

\* The flag verifyNetwork's batch writes.
FlagRecord(net) == fromU32(Magic(net))

\* verifyNetwork's batch commits the flag; open() goes on into connect().
FlagWrite ==
    /\ life = "flag"
    /\ flag' = FlagRecord(network)
    /\ life' = "ready"
    /\ ClientOpen("open")
    /\ UNCHANGED <<chain, network, tip, busy, tasks, txdb, dbTip>>

\* IndexDB.connect() called on an open engine.
Connect ==
    /\ life = "ready"
    /\ opened \/ pendingConnect < MaxTasks
    /\ ClientOpen("connect")
    /\ UNCHANGED <<chain, network, life, tip, busy, tasks, store>>

\* ChainClient.close(), reached through IndexDB.disconnect(): the
\* 'disconnect' emit is queued with setImmediate.
ClientClose(op) ==
    IF opened
    THEN /\ opened' = FALSE
         /\ pendingDisconnect' = pendingDisconnect + 1
         /\ pendingConnect' = pendingConnect
         /\ Other(Ev(op, -1, "ok", "none"))
    ELSE /\ Other(Ev(op, -1, "assert", "reject"))
         /\ UNCHANGED <<opened, queued>>

\* IndexDB.disconnect() called on an open engine.
Disconnect ==
    /\ life = "ready"
    /\ ~opened \/ pendingDisconnect < MaxTasks
    /\ ClientClose("disconnect")
    /\ UNCHANGED <<chain, network, life, tip, busy, tasks, store>>

\* A queued 'disconnect' emit runs: the engine has no listener for it.
ClientDisconnectEvent ==
    /\ pendingDisconnect > 0
    /\ pendingDisconnect' = pendingDisconnect - 1
    /\ Other(Ev("disconnected", -1, "ok", "none"))
    /\ UNCHANGED <<chain, opened, pendingConnect, network, life, tip, busy, tasks, store>>

\* IndexDB.close(), called on an open engine while no handler is in
\* flight: the store is closed, and nothing else is.
Close ==
    /\ life = "ready"
    /\ tasks = EmptyBag
    /\ life' = "closed"
    /\ Other(Ev("close", -1, "ok", "none"))
    /\ UNCHANGED <<chain, opened, queued, network, tip, busy, tasks, store>>

\* The process ends and a new engine is constructed over the same store,
\* for the same or for another network: everything in memory is new, the
\* store and the chain are as they were.
Restart(net) ==
    /\ life /= "new"
    /\ network' = net
    /\ life' = "new"
    /\ opened' = FALSE
    /\ pendingConnect' = 0
    /\ pendingDisconnect' = 0
    /\ tip' = ZeroTip
    /\ busy' = FALSE
    /\ tasks' = EmptyBag
    /\ ev' = Ev("restart", -1, "ok", "none")
    /\ iso' = IsoIdle
    /\ notified' = Impure
    /\ errored' = FALSE
    /\ UNCHANGED <<chain, store>>

\* The process ends and the engine is constructed again as it was.
Crash == Restart(network)

\* The process ends while an indexBlock has committed its batch of puts and
\* its setTip has not yet committed the tip record.
CrashInIndex == Running("ib_setTip") /= {} /\ Restart(network)

\* The engine is constructed again for another network, over a store that
\* an engine has initialised.
Reconfigure == flag /= NoFlag /\ \E net \in Networks \ {network} : Restart(net)

\* ------------------------------------------------------------ the options

\* Network.primary, the default network.
Primary == "main"

\* What an options object can hold as `network`: nothing ("undefined"),
\* null, a network object, or a value that is not an object (a string, a
\* number).
OptionNetworks == {"undefined", "null", "string", "number"} \cup Networks

\* `options.network != null`
NotNull(v) == v \notin {"undefined", "null"}

\* `typeof options.network === 'object'`
TypeofObject(v) == v \in Networks \cup {"null"}

\* IndexOptions.fromOptions(options), its `network`: the assert is the body
\* of the `if`, the assignment follows it unconditionally.
fromOptions(v) ==
    IF NotNull(v) /\ ~TypeofObject(v) THEN "AssertionError" ELSE v

\* new IndexDB(options): the engine is constructed over the store from an
\* options object; when IndexOptions throws there is no engine to open.
Construct(v) ==
    /\ network' = IF fromOptions(v) = "AssertionError" THEN network ELSE fromOptions(v)
    /\ life' = IF fromOptions(v) = "AssertionError" THEN "failed" ELSE "new"
    /\ opened' = FALSE
    /\ pendingConnect' = 0
    /\ pendingDisconnect' = 0
    /\ tip' = ZeroTip
    /\ busy' = FALSE
    /\ tasks' = EmptyBag
    /\ ev' = [Ev("construct", -1,
                  IF fromOptions(v) = "AssertionError" THEN "assert" ELSE "ok",
                  IF fromOptions(v) = "AssertionError" THEN "throw" ELSE "none")
                EXCEPT !.opt = v]
    /\ iso' = IsoIdle
    /\ notified' = Impure
    /\ errored' = FALSE
    /\ UNCHANGED <<chain, store>>

\* ------------------------------------------------------------ the facade

\* The read operations of the plugin, each a pass-through
\* `return this.idb.<name>(arg)`.
FacadeOps ==
    {"getMeta", "getTX", "hasTX", "getCoinsByAddress", "getHashesByAddress",
     "getTXByAddress", "getMetaByAddress"}

\* Those of them that class IndexDB defines.
IndexDBMethods == {"getMeta"}

\* An address, no transaction of the chain pays to.
NoAddress == <<-1, "addr", -1>>

\* What a read may be asked for: a transaction hash, or an address.
FacadeArgs(op) ==
    IF op \in {"getMeta", "getTX", "hasTX"} THEN TxHashes ELSE {NoAddress}

\* Plugin.<op>(x) on an open engine: calling a method IndexDB does not have
\* is a TypeError, thrown to the caller; getMeta reads t[hash].
FacadeRead(op, x) ==
    /\ life = "ready"
    /\ IF op \notin IndexDBMethods
       THEN Other([Ev(op, -1, "type", "throw") EXCEPT !.key = x])
       ELSE Other([Ev(op, -1, IF getMeta(x) = NoMeta THEN "null" ELSE "found", "none")
                      EXCEPT !.key = x])
    /\ UNCHANGED <<chain, opened, queued, network, life, tip, busy, tasks, store>>

\* ------------------------------------------------------------- listeners

\* ChainClient.init: a chain event is forwarded only while the client is open.
Forwards == opened

\* A handler of one of the three block listeners as it starts.
Handler(kind) ==
    [Task(kind, "new") EXCEPT !.rank = Cardinality({t \in BagToSet(tasks) : t.rank >= 0}),
                              !.lk = busy]

\* The chain source connects block b.  ChainClient.init forwards the event
\* as 'block connect' when the client is open, and the engine's listener
\* runs indexBlock up to its first await.
ChainConnect(b) ==
    /\ Prev(b) = ChainTip
    /\ b[1] = Len(chain) + 1
    /\ chain' = Append(chain, b)
    /\ IF Forwards
       THEN /\ InFlight < MaxTasks
            /\ Step(NoTask, indexBlockCall(Handler("blockConnect"), tip, b, b),
                    EmptyBag, "indexBlock", b)
       ELSE /\ Other(Ev("dropped", b[1], "ok", "none"))
            /\ UNCHANGED <<tasks, busy>>
    /\ UNCHANGED <<opened, queued, network, life, tip, store>>

\* The chain source disconnects its tip: 'block disconnect' -> unindexBlock.
ChainDisconnect ==
    /\ chain /= <<>>
    /\ chain' = SubSeq(chain, 1, Len(chain) - 1)
    /\ LET b == ChainTip IN
       IF Forwards
       THEN /\ InFlight < MaxTasks
            /\ Step(NoTask, unindexBlockCall(Handler("blockDisconnect"), tip, b, b),
                    EmptyBag, "unindexBlock", b)
       ELSE /\ Other(Ev("dropped", b[1], "ok", "none"))
            /\ UNCHANGED <<tasks, busy>>
    /\ UNCHANGED <<opened, queued, network, life, tip, store>>

\* The chain changes while the client is closed: ChainClient.init forwards
\* nothing.
ChainConnectUnheard(b) == ~Forwards /\ ChainConnect(b)

ChainDisconnectUnheard == ~Forwards /\ ChainDisconnect

\* 'chain reset' with a tip at height h -> rollback(h).
ChainReset(h) ==
    /\ opened
    /\ InFlight < MaxTasks
    /\ Step(NoTask, rollbackCall(Handler("chainReset"), tip, h),
            EmptyBag, "rollback", <<h, "h">>)
    /\ UNCHANGED <<chain, opened, queued, network, life, tip, store>>

\* A queued 'connect' emit runs: syncNode up to `await this.lock.lock()`,
\* and, the lock being free, on into getTip's `await this.db.get(...)`.
ClientConnectEvent ==
    /\ pendingConnect > 0
    /\ InFlight < MaxTasks
    /\ pendingConnect' = pendingConnect - 1
    /\ pendingDisconnect' = pendingDisconnect
    /\ Step(NoTask,
            IF busy THEN Run(Task("connect", "lock"), "begun")
            ELSE IF Closed THEN Throw(Task("connect", "gt_get"), "closed")
            ELSE Run(Task("connect", "gt_get"), "begun"),
            EmptyBag, "syncNode", Null)
    /\ UNCHANGED <<chain, opened, network, life, tip, store>>

\* ---------------------------------------------------------- resumptions

\* getTip() after `await this.db.get(layout.h.build())`, then syncNode's
\* `this.tip = await this.getTip()` and syncFilter().  With no `h` record
\* getTip starts setTip(this.tip) and does not await it.
GetTipResume ==
    \E t \in Running("gt_get") :
        LET mt == IF dbTip = NoRaw THEN tip ELSE fromRaw(dbTip)
            side == IF dbTip = NoRaw
                    THEN SetToBag({[Task("detached", "dt_setTip") EXCEPT !.st = tip]})
                    ELSE EmptyBag
        IN  /\ tip' = mt
            /\ Step(t, Run([t EXCEPT !.pc = "filter"], "ok"), side, "step", Null)
            /\ UNCHANGED <<chain, opened, queued, network, life, store>>

\* syncFilter() done; scan() runs up to `await this.client.getTip()`.
SyncFilterResume ==
    \E t \in Running("filter") :
        /\ Step(t, Run([t EXCEPT !.pc = "sc_getTip", !.tgt = tip.height], "ok"),
                EmptyBag, "step", Null)
        /\ UNCHANGED <<chain, opened, queued, network, life, tip, store>>

\* scan() after `await this.client.getTip()`: the height is lowered to the
\* remote tip's, and rollback(height) is called.
ScanGetTipResume ==
    \E t \in Running("sc_getTip") :
        LET rtip == Entry(ChainTip)
            height == IF rtip.height < t.tgt THEN rtip.height ELSE t.tgt
        IN  /\ Step(t, rollbackCall([t EXCEPT !.rh = rtip.height], tip, height),
                    EmptyBag, "scan.rollback", <<height, "h">>)
            /\ UNCHANGED <<chain, opened, queued, network, life, tip, store>>

\* rollback() after `await this.client.getEntry(height)`, up to
\* `await this.client.getBlock(prev)` with prev = this.tip.hash.
RollbackGetEntryResume ==
    \E t \in Running("rb_getEntry") :
        LET entry == getEntry(t.tgt) IN
        /\ Step(t,
                IF entry = Null THEN Throw(t, "type")
                ELSE Run([t EXCEPT !.pc = "rb_getBlock", !.e = entry, !.pos = tip.hash],
                         "ok"),
                EmptyBag, "step", Null)
        /\ UNCHANGED <<chain, opened, queued, network, life, tip, store>>

\* A variant of RollbackBreaks that goes on without a block.
RollbackBreaksAtHeight(block, height) == block /= Null /\ Block(block).height = height

\* rollback's loop: `block == null || block.height === height`
RollbackBreaks(block, height) == block = Null \/ Block(block).height = height

\* rollback's loop once client.getBlock(prev) returned `block`: leave the
\* loop and start setTip(tip), or call unindexBlock(entry, block).
RollbackLoop(t, block) ==
    /\ IF RollbackBreaks(block, t.tgt)
       THEN Step(t,
                 IF Closed THEN Throw(t, "closed")
                 ELSE Run([t EXCEPT !.pc = "rb_setTip", !.st = fromEntry(Entry(t.e))],
                          "ok"),
                 EmptyBag, IF block = Null THEN "rollback.noBlock" ELSE "step", Null)
       ELSE Step(t, unindexBlockCall(t, tip, t.e, block),
                 EmptyBag,
                 IF block = Null THEN "rollback.noBlock" ELSE "rollback.unindexBlock", t.e)
    /\ UNCHANGED <<chain, opened, queued, network, life, tip, store>>

\* rollback's loop after `await this.client.getBlock(prev)`.
RollbackGetBlockResume ==
    \E t \in Running("rb_getBlock") : RollbackLoop(t, getBlock(t.pos))

\* The same on a chain source that no longer stores the block (a pruned or
\* forgotten block): client.getBlock(prev) returned null.
RollbackGetBlockMissing ==
    \E t \in Running("rb_getBlock") : RollbackLoop(t, Null)

\* unindexBlock() after `await this.client.getEntry(tip.height - 1)`, up to
\* `await b.write()`.
UnindexGetEntryResume ==
    \E t \in Running("ub_getEntry") :
        LET prevEntry == getEntry(Entry(t.e).height - 1) IN
        /\ Step(t,
                IF prevEntry = Null THEN Throw(t, "assert")
                ELSE IF Closed THEN Throw(t, "closed")
                ELSE Run([t EXCEPT !.pc = "ub_write", !.st = fromEntry(Entry(prevEntry))],
                         "ok"),
                EmptyBag, "step", Null)
        /\ UNCHANGED <<chain, opened, queued, network, life, tip, store>>

\* unindexBlock's batch of dels commits; setTip(prev) starts its own batch.
UnindexWriteResume ==
    \E t \in Running("ub_write") :
        /\ txdb' = UnindexDels(txdb, t.b)
        /\ Step(t, Run([t EXCEPT !.pc = "ub_setTip"], "ok"), EmptyBag, "step", Null)
        /\ UNCHANGED <<chain, opened, queued, network, life, tip, dbTip, flag>>

\* indexBlock's batch of puts commits; setTip(tip) starts its own batch.
IndexWriteResume ==
    \E t \in Running("ib_write") :
        /\ txdb' = IndexPuts(txdb, t.e, t.b)
        /\ Step(t, Run([t EXCEPT !.pc = "ib_setTip"], "ok"), EmptyBag, "step", Null)
        /\ UNCHANGED <<chain, opened, queued, network, life, tip, dbTip, flag>>

\* Where the caller of setTip goes on once setTip returned.
AfterSetTip(t, mt) ==
    CASE t.pc \in {"ib_setTip", "ib_tip"} -> AfterIndex(t, "ok")
      [] t.pc \in {"ub_setTip", "ub_tip"} -> AfterUnindex(t, "ok")
      [] t.pc \in {"rb_setTip", "rb_tip"} -> AfterRollback(t, mt, "ok")
      [] OTHER -> Fin(t, "ok")

\* setTip() after `await b.write()`: the `h` record is committed, then
\* `this.tip = tip`, and the caller goes on.  The commit and the resumption
\* are one step here; SetTipWrite and SetTipAssign are the two apart.
SetTipResume ==
    \E t \in Running("ib_setTip") \cup Running("ub_setTip")
             \cup Running("rb_setTip") \cup Running("dt_setTip") :
        /\ dbTip' = toRaw(t.st)
        /\ tip' = t.st
        /\ Step(t, AfterSetTip(t, t.st), EmptyBag, "step", Null)
        /\ UNCHANGED <<chain, opened, queued, network, life, txdb, flag>>

\* setTip awaiting `b.write()`, once the batch has committed.
Written(pc) ==
    CASE pc = "ib_setTip" -> "ib_tip"
      [] pc = "ub_setTip" -> "ub_tip"
      [] pc = "rb_setTip" -> "rb_tip"
      [] OTHER -> "dt_tip"

WrittenPcs == {"ib_tip", "ub_tip", "rb_tip", "dt_tip"}

\* A variant of SetTipWrite that assigns `this.tip` before the batch is
\* written.
SetTipAssignsEarly ==
    \E t \in Running("ib_setTip") \cup Running("ub_setTip") :
        /\ tip' = t.st
        /\ Step(t, Run([t EXCEPT !.pc = Written(t.pc)], "ok"), EmptyBag, "setTip.write", Null)
        /\ UNCHANGED <<chain, opened, queued, network, life, store>>

\* setTip's batch commits the `h` record while setTip awaits `b.write()`.
SetTipWrite ==
    \E t \in Running("ib_setTip") \cup Running("ub_setTip")
             \cup Running("rb_setTip") \cup Running("dt_setTip") :
        /\ dbTip' = toRaw(t.st)
        /\ Step(t, Run([t EXCEPT !.pc = Written(t.pc)], "ok"), EmptyBag, "setTip.write", Null)
        /\ UNCHANGED <<chain, opened, queued, network, life, tip, txdb, flag>>

\* setTip() resumes after `await b.write()`: `this.tip = tip`, and the
\* caller goes on.
SetTipAssign ==
    \E t \in Running("ib_tip") \cup Running("ub_tip")
             \cup Running("rb_tip") \cup Running("dt_tip") :
        /\ tip' = t.st
        /\ Step(t, AfterSetTip(t, t.st), EmptyBag, "setTip", Null)
        /\ UNCHANGED <<chain, opened, queued, network, life, store>>

\* scan's loop after `await this.client.getEntry(height)`, up to
\* `await this.client.getBlock(entry.hash)`.
ScanGetEntryResume ==
    \E t \in Running("sc_getEntry") :
        LET entry == getEntry(t.ht) IN
        /\ Step(t,
                IF entry = Null THEN Throw(t, "type")
                ELSE Run([t EXCEPT !.pc = "sc_getBlock", !.e = entry], "ok"),
                EmptyBag, "step", Null)
        /\ UNCHANGED <<chain, opened, queued, network, life, tip, store>>

\* scan's loop after `await this.client.getBlock(entry.hash)`: indexBlock.
ScanGetBlockResume ==
    \E t \in Running("sc_getBlock") :
        /\ Step(t, indexBlockCall(t, tip, t.e, getBlock(t.e)),
                EmptyBag, "scan.indexBlock", t.e)
        /\ UNCHANGED <<chain, opened, queued, network, life, tip, store>>

\* ------------------------------------------------------------------- Next

Next ==
    \/ Open
    \/ VerifyNetwork
    \/ FlagWrite
    \/ Crash
    \/ Reconfigure
    \/ \E b \in Blocks : ChainConnect(b)
    \/ ChainDisconnect
    \/ \E h \in Heights : ChainReset(h)
    \/ ClientConnectEvent
    \/ GetTipResume
    \/ SyncFilterResume
    \/ ScanGetTipResume
    \/ RollbackGetEntryResume
    \/ RollbackGetBlockResume
    \/ UnindexGetEntryResume
    \/ UnindexWriteResume
    \/ IndexWriteResume
    \/ SetTipResume
    \/ ScanGetEntryResume
    \/ ScanGetBlockResume

Spec == Init /\ [][Next]_vars

\* The engine driven through its whole API: open(), connect(), disconnect()
\* and close(), over a chain that only grows, without restarts and without
\* 'chain reset' events (no handler then reaches unindexBlock's batch).
NextLifecycle ==
    \/ Open
    \/ VerifyNetwork
    \/ FlagWrite
    \/ Connect
    \/ Disconnect
    \/ Close
    \/ \E b \in Blocks : ChainConnect(b)
    \/ ClientConnectEvent
    \/ ClientDisconnectEvent
    \/ GetTipResume
    \/ SyncFilterResume
    \/ ScanGetTipResume
    \/ RollbackGetEntryResume
    \/ RollbackGetBlockResume
    \/ IndexWriteResume
    \/ SetTipResume
    \/ ScanGetEntryResume
    \/ ScanGetBlockResume

Lifecycle == Init /\ [][NextLifecycle]_vars

\* The facade read while blocks are connected and indexed.
NextFacade ==
    \/ Open
    \/ VerifyNetwork
    \/ FlagWrite
    \/ \E b \in Blocks : ChainConnect(b)
    \/ IndexWriteResume
    \/ SetTipResume
    \/ \E op \in FacadeOps : \E x \in FacadeArgs(op) : FacadeRead(op, x)

Facade == Init /\ [][NextFacade]_vars

\* Engines constructed from options objects, opened, and fed blocks.
NextConstruction ==
    \/ \E v \in OptionNetworks : Construct(v)
    \/ Open
    \/ VerifyNetwork
    \/ FlagWrite
    \/ \E b \in Blocks : ChainConnect(b)
    \/ IndexWriteResume
    \/ SetTipResume

Construction == Init /\ [][NextConstruction]_vars

\* Blocks connected and disconnected, with the commit of setTip's batch and
\* the resumption of setTip as steps of their own.
NextOrdering ==
    \/ Open
    \/ VerifyNetwork
    \/ FlagWrite
    \/ \E b \in Blocks : ChainConnect(b)
    \/ ChainDisconnect
    \/ IndexWriteResume
    \/ UnindexGetEntryResume
    \/ UnindexWriteResume
    \/ SetTipWrite
    \/ SetTipAssign

Ordering == Init /\ [][NextOrdering]_vars

\* The engine following the chain, ended only between an indexBlock's batch
\* and its tip write, and resyncing after each restart; the chain goes on
\* changing while the engine is down.
NextRecovery ==
    \/ Open
    \/ VerifyNetwork
    \/ FlagWrite
    \/ CrashInIndex
    \/ \E b \in Blocks : ChainConnect(b)
    \/ ChainDisconnect
    \/ ClientConnectEvent
    \/ GetTipResume
    \/ SyncFilterResume
    \/ ScanGetTipResume
    \/ RollbackGetEntryResume
    \/ RollbackGetBlockResume
    \/ UnindexGetEntryResume
    \/ UnindexWriteResume
    \/ IndexWriteResume
    \/ SetTipResume
    \/ ScanGetEntryResume
    \/ ScanGetBlockResume

Recovery == Init /\ [][NextRecovery]_vars

\* Rollbacks on a chain source that may have lost blocks.
NextPruned ==
    \/ Open
    \/ VerifyNetwork
    \/ FlagWrite
    \/ \E b \in Blocks : ChainConnect(b)
    \/ ChainDisconnect
    \/ \E h \in Heights : ChainReset(h)
    \/ RollbackGetEntryResume
    \/ RollbackGetBlockResume
    \/ RollbackGetBlockMissing
    \/ UnindexGetEntryResume
    \/ UnindexWriteResume
    \/ IndexWriteResume
    \/ SetTipResume

Pruned == Init /\ [][NextPruned]_vars

\* The first resync of an engine, over a chain that grew before the client
\* was opened, with the commit of setTip's batch and the resumption of
\* setTip as steps of their own.
NextFirstResync ==
    \/ Open
    \/ VerifyNetwork
    \/ FlagWrite
    \/ \E b \in Blocks : ChainConnectUnheard(b)
    \/ ClientConnectEvent
    \/ GetTipResume
    \/ SyncFilterResume
    \/ ScanGetTipResume
    \/ ScanGetEntryResume
    \/ ScanGetBlockResume
    \/ IndexWriteResume
    \/ SetTipWrite
    \/ SetTipAssign

FirstResync == Init /\ [][NextFirstResync]_vars

\* The client opened and closed a few times (the 'disconnect' emits stay
\* queued, which bounds the closes), each 'connect' starting a resync, over
\* a chain that changes while the client is closed.
NextResync ==
    \/ Open
    \/ VerifyNetwork
    \/ FlagWrite
    \/ Connect
    \/ Disconnect
    \/ Close
    \/ \E b \in Blocks : ChainConnectUnheard(b)
    \/ ChainDisconnectUnheard
    \/ ClientConnectEvent
    \/ GetTipResume
    \/ SyncFilterResume
    \/ ScanGetTipResume
    \/ RollbackGetEntryResume
    \/ RollbackGetBlockResume
    \/ IndexWriteResume
    \/ SetTipResume
    \/ ScanGetEntryResume
    \/ ScanGetBlockResume

\* Every await of a handler completes: the store and the chain source
\* answer each call.
AwaitsComplete ==
    /\ WF_vars(GetTipResume)
    /\ WF_vars(SyncFilterResume)
    /\ WF_vars(ScanGetTipResume)
    /\ WF_vars(RollbackGetEntryResume)
    /\ WF_vars(RollbackGetBlockResume)
    /\ WF_vars(IndexWriteResume)
    /\ WF_vars(SetTipResume)
    /\ WF_vars(ScanGetEntryResume)
    /\ WF_vars(ScanGetBlockResume)

Resync == Init /\ [][NextResync]_vars /\ AwaitsComplete

TypeOK ==
    /\ opened \in BOOLEAN
    /\ busy \in BOOLEAN
    /\ pendingConnect \in 0..MaxTasks
    /\ pendingDisconnect \in 0..MaxTasks
    /\ tip.height \in Heights

\* ----------------------------------------------------------------- claims

\* The records of block b are in the store.
Resolves(db, b) == \A i \in 1..Len(Txs(b)) : db[Txs(b)[i]] /= NoMeta

\* No record of block b is in the store.
Unresolved(db, b) == \A i \in 1..Len(Txs(b)) : db[Txs(b)[i]] = NoMeta

\* No handler is in flight.
Quiet == tasks = EmptyBag

\* C1: after 'block connect' notifications of strictly increasing heights,
\* from the engine's construction on an empty store, once every indexBlock
\* handler has finished the tip height is that of the last notified block
\* and getMeta finds every transaction of every notified block.
C1_CatchUp ==
    (notified.pure /\ notified.seen /= {} /\ Quiet) =>
        /\ tip.height = notified.last
        /\ \A b \in notified.seen : Resolves(txdb, b)

\* The handlers of an isolated run: first Connect(B), then Disconnect(B).
IsoRoundTrip ==
    /\ iso.n = 2 /\ ~iso.running
    /\ iso.ops[1].op = "blockConnect" /\ iso.ops[1].res = "ok"
    /\ iso.ops[2].op = "blockDisconnect" /\ iso.ops[2].arg = iso.ops[1].arg

\* What the round trip is to leave behind: the tip as before, no record of
\* B, and every record of another transaction as it was.
RoundTripRestores ==
    LET B == iso.ops[1].arg IN
    /\ tip = iso.pre
    /\ Unresolved(txdb, B)
    /\ \A x \in TxHashes :
          (\A i \in 1..Len(Txs(B)) : Txs(B)[i] /= x) => txdb[x] = iso.pretx[x]

\* C2 as stated: for every block B that indexBlock accepts, from any tip,
\* indexBlock(B) and then at once unindexBlock(B) restores the tip (height
\* and hash), leaves no record of B and keeps the other blocks' records.
C2_RoundTripAnyTip == IsoRoundTrip => RoundTripRestores

\* C2 amended: the same for a block B indexed while the tip is B's parent,
\* the chain source's main-chain entry one below B.
C2_RoundTrip ==
    (IsoRoundTrip /\ iso.pre = fromEntry(Entry(Prev(iso.ops[1].arg)))) =>
        (iso.ops[2].res = "ok" /\ RoundTripRestores)

C2_Witness ==
    /\ IsoRoundTrip
    /\ iso.pre = fromEntry(Entry(Prev(iso.ops[1].arg)))
    /\ iso.ops[1].arg[1] = 2
    /\ Resolves(iso.pretx, Prev(iso.ops[1].arg))

\* The store holds exactly the main chain's blocks, indexed up to the tip t.
IndexedChain(t, db) ==
    /\ chain /= <<>>
    /\ t = fromEntry(Entry(ChainTip))
    /\ \A i \in 1..Len(chain) : \A k \in 1..Len(Txs(chain[i])) :
          db[Txs(chain[i])[k]] = fromTX(Entry(chain[i]), k - 1)

\* C3: with the heights 1..n indexed one after the other on one chain,
\* rollback(h) for 0 < h < n ends without error with the tip at height h, no
\* record of the blocks above h and every record of the blocks up to h.
C3_RollbackUnindexes ==
    LET h == iso.ops[1].arg[1] IN
    (/\ iso.n = 1 /\ ~iso.running
     /\ iso.ops[1].op = "chainReset"
     /\ IndexedChain(iso.pre, iso.pretx)
     /\ 0 < h /\ h < iso.pre.height) =>
        /\ iso.ops[1].res \notin Errors
        /\ tip.height = h
        /\ \A i \in 1..Len(chain) :
              IF i > h THEN Unresolved(txdb, chain[i]) ELSE Resolves(txdb, chain[i])

C3_Witness ==
    /\ iso.n = 1 /\ ~iso.running
    /\ iso.ops[1].op = "chainReset" /\ iso.ops[1].arg[1] = 1
    /\ IndexedChain(iso.pre, iso.pretx) /\ iso.pre.height = 2

\* How many handlers are inside rollback.
InRollback(B) ==
    Cardinality({t \in BagToSet(B) :
        \/ t.pc \in {"rb_getEntry", "rb_getBlock", "rb_setTip"}
        \/ /\ t.kind \in {"chainReset", "connect"}
           /\ t.pc \in {"ub_getEntry", "ub_write", "ub_setTip"}})

\* A step that calls rollback(h): from the 'chain reset' listener or from scan.
CallsRollback == ev'.op \in {"rollback", "scan.rollback"}

\* C4: in every reachable state rollback(h) with h the tip's height returns
\* without error, writes and deletes no record of the store (transaction
\* records, persisted tip, network flag) and leaves the tip in memory as it is.
C4_RollbackSameHeight ==
    [][(CallsRollback /\ ev'.h = tip.height) =>
          /\ ev'.res = "same" /\ ev'.chan = "none"
          /\ InRollback(tasks') <= InRollback(tasks)
          /\ UNCHANGED <<store, tip>>]_vars

C4_Witness ==
    /\ ev.op = "rollback" /\ ev.res = "same"
    /\ tip.height = 2 /\ txdb /= EmptyTx /\ dbTip /= NoRaw

\* C5: in every reachable state rollback(h) with h above the tip's height
\* fails with the 'Cannot rollback to the future' error, and the store, the
\* persisted tip and the tip in memory are after the call as before it.
C5_RollbackFuture ==
    [][(CallsRollback /\ ev'.h > tip.height) =>
          /\ ev'.res = "future" /\ ev'.chan = "emit"
          /\ InRollback(tasks') <= InRollback(tasks)
          /\ UNCHANGED <<store, tip>>]_vars

C5_Witness ==
    /\ ev.op = "rollback" /\ ev.res = "future" /\ ev.h = 2
    /\ tip.height = 1 /\ txdb /= EmptyTx /\ dbTip /= NoRaw

\* A 'block disconnect' notification failed fatally: unindexBlock threw, the
\* listener emitted the error, and neither the store nor the tip changed.
DisconnectFails ==
    /\ ev'.res \in Errors /\ ev'.chan = "emit"
    /\ UNCHANGED <<store, tip>>

\* C6 as stated: a 'block disconnect' notification for a block whose height
\* differs from the tip's fails fatally (an error, no silent return) and
\* leaves every record of the store and the tip unchanged.
C6_DisconnectOtherHeight ==
    [][(ev'.op = "unindexBlock" /\ ev'.h /= tip.height) => DisconnectFails]_vars

\* C6 amended: a 'block disconnect' notification for a block whose height is
\* below the tip's fails fatally and leaves the store and the tip unchanged;
\* one for a block above the tip is skipped without error and changes
\* nothing either.
C6_DisconnectBelowTip ==
    [][/\ (ev'.op = "unindexBlock" /\ ev'.h < tip.height) => DisconnectFails
       /\ (ev'.op = "unindexBlock" /\ ev'.h > tip.height) =>
             /\ ev'.res = "skip" /\ ev'.chan = "none"
             /\ UNCHANGED <<store, tip>>]_vars

C6_Witness ==
    /\ ev.op = "unindexBlock" /\ ev.res = "mismatch" /\ ev.chan = "emit"
    /\ ev.h = 1 /\ tip.height = 2 /\ txdb /= EmptyTx

\* The store holds the flag of another network than the engine's.
ForeignFlag == flag /= NoFlag /\ flag /= fromU32(Magic(network))

\* C7: with a flag of magic M1 in the store, open() of an engine configured
\* for a network of magic M2 /= M1 fails with the network-mismatch error
\* before the chain client is opened and before any transaction record or
\* tip is written, and the flag still holds M1; the flag is written only
\* when absent, and no operation overwrites or deletes it.
C7_NetworkGuard ==
    [][/\ (ev'.op = "verifyNetwork" /\ ForeignFlag) =>
             /\ ev'.res = "network" /\ ev'.chan = "reject"
             /\ life' = "failed"
             /\ UNCHANGED <<store, tip>>
       /\ life' = "failed" => (~opened' /\ pendingConnect' = 0 /\ tasks' = EmptyBag)
       /\ flag /= NoFlag => flag' = flag
       /\ flag' /= flag => flag' = fromU32(Magic(network))]_vars

C7_Witness ==
    /\ life = "failed" /\ network = "testnet"
    /\ ev.op = "verifyNetwork" /\ ev.res = "network"
    /\ flag = fromU32(Magic("main")) /\ txdb /= EmptyTx

BlockHandlers == {"blockConnect", "blockDisconnect", "chainReset"}

\* C8: while syncNode holds the resync lock, a 'block connect' notification
\* that arrives is not processed until the lock is released: its handler
\* writes no record and does not move the tip between the lock's
\* acquisition and its release.
C8_LiveConnectWaits ==
    [][(ev'.who = "blockConnect" /\ ev'.lk) => UNCHANGED <<store, tip>>]_vars

\* C9: the 'block connect', 'block disconnect' and 'chain reset' handlers
\* run one at a time: a handler writes no record and does not move the tip
\* while a handler notified before it is still in flight.
C9_HandlersOneAtATime ==
    [][(ev'.who \in BlockHandlers /\ ev'.rank > 0) => UNCHANGED <<store, tip>>]_vars

Fatal == {"genesis", "mismatch", "future"}

\* C11: once a fatal error has been raised indexing stops: a 'block
\* connect', 'block disconnect' or 'chain reset' notified after it changes
\* neither the store nor the tip.
C11_FatalStopsIndexing ==
    (iso.n = 2 /\ iso.ops[1].res \in Fatal) => (tip = iso.pre /\ txdb = iso.pretx)

\* C12: close() closes the chain client and then the store: once close()
\* has returned the client is not open, and no chain event is forwarded to
\* an indexBlock or unindexBlock handler.
C12_CloseClosesClient ==
    [][/\ life' = "closed" => ~opened'
       /\ (life = "closed" /\ chain' /= chain) => ev'.op = "dropped"]_vars

\* A step that calls ChainClient.open(), and one that calls ChainClient.close().
CallsClientOpen == ev'.op \in {"open", "verifyNetwork", "connect"} /\ ev'.res \in {"ok", "assert"}

CallsClientClose == ev'.op = "disconnect"

\* The call failed: it was rejected and changed neither the flag nor the queue.
ClientCallFails ==
    /\ ev'.res = "assert" /\ ev'.chan = "reject"
    /\ UNCHANGED <<opened, queued, tasks>>

\* C13: over any sequence of open() and close() calls of the chain client,
\* open() fails when the client is open and close() when it is not, a failed
\* call leaves the opened flag as it is, and each successful open() or
\* close() queues exactly one 'connect' or 'disconnect' notification, which
\* is delivered in a later step, once.
C13_ClientLifecycle ==
    [][/\ CallsClientOpen =>
             IF opened THEN ClientCallFails
             ELSE /\ ev'.res = "ok" /\ opened'
                  /\ pendingConnect' = pendingConnect + 1
                  /\ UNCHANGED <<pendingDisconnect, tasks>>
       /\ CallsClientClose =>
             IF ~opened THEN ClientCallFails
             ELSE /\ ev'.res = "ok" /\ ~opened'
                  /\ pendingDisconnect' = pendingDisconnect + 1
                  /\ UNCHANGED <<pendingConnect, tasks>>
       /\ pendingConnect' > pendingConnect => CallsClientOpen
       /\ pendingDisconnect' > pendingDisconnect => CallsClientClose
       /\ opened' /= opened => (CallsClientOpen \/ CallsClientClose)
       /\ pendingConnect' < pendingConnect =>
             (pendingConnect' = pendingConnect - 1 /\ ev'.op = "syncNode")
       /\ pendingDisconnect' < pendingDisconnect =>
             (pendingDisconnect' = pendingDisconnect - 1 /\ ev'.op = "disconnected")]_vars

C13_Witness ==
    /\ ev.op = "connect" /\ ev.res = "assert" /\ opened
    /\ pendingDisconnect = 1 /\ pendingConnect = 1

\* C14: every read of the facade (getMeta, getTX, hasTX, getCoinsByAddress,
\* getHashesByAddress, getTXByAddress, getMetaByAddress) asked for a hash or
\* an address the store does not know returns null or an empty result,
\* raises no error and changes neither the store nor the tip.
C14_FacadeReadsUnknown ==
    [][(ev'.op \in FacadeOps /\ (ev'.key = NoAddress \/ txdb[ev'.key] = NoMeta)) =>
          /\ ev'.res \in {"null", "empty"} /\ ev'.chan = "none"
          /\ UNCHANGED <<store, tip>>]_vars

\* C15: constructing the options from an object that does not set `network`
\* yields the primary network, from one that sets it to a value that is not
\* an object fails, and no engine is ever configured with an undefined or
\* invalid network.
C15_OptionsNetwork ==
    /\ network \in Networks
    /\ ev.op = "construct" =>
          /\ ev.opt = "undefined" => (ev.res = "ok" /\ network = Primary)
          /\ ev.opt \in {"string", "number"} => ev.res = "assert"

\* A handler without its observation fields.
Core(t) == [t EXCEPT !.rank = -1, !.lk = FALSE]

\* The handlers that a step started or moved on.
Moved == BagToSet(BagOfAll(Core, tasks') (-) BagOfAll(Core, tasks))

\* C16: in indexBlock and unindexBlock the batch of puts (or dels) commits
\* first, then setTip's batch writes the tip record, and only then is the
\* tip in memory assigned: the records change only in the step that takes a
\* handler to setTip, the tip record only in a step of a handler whose
\* batch has committed, and the tip in memory only in a step of a handler
\* whose tip record has committed, to the value that handler wrote.
C16_OrderOfEffects ==
    [][/\ \A t \in Moved :
             /\ t.pc = "ib_setTip" => (txdb' = IndexPuts(txdb, t.e, t.b) /\ UNCHANGED <<dbTip, tip>>)
             /\ t.pc = "ub_setTip" => (txdb' = UnindexDels(txdb, t.b) /\ UNCHANGED <<dbTip, tip>>)
             /\ t.pc \in WrittenPcs => (dbTip' = toRaw(t.st) /\ UNCHANGED <<txdb, tip>>)
       /\ txdb' /= txdb => \E t \in Moved : t.pc \in {"ib_setTip", "ub_setTip"}
       /\ dbTip' /= dbTip => \E t \in Moved : t.pc \in WrittenPcs
       /\ tip' /= tip =>
             /\ UNCHANGED <<txdb, dbTip>>
             /\ \E t \in BagToSet(tasks) : t.pc \in WrittenPcs /\ t.st = tip'
                    /\ tasks' /= tasks]_vars

\* A block was unindexed after a block was indexed, each through its batch,
\* its tip record and its tip in memory.
C16_Witness ==
    /\ ev.op = "setTip" /\ ev.who = "blockDisconnect" /\ ev.res = "ok"
    /\ tip.height = 0 /\ dbTip = toRaw(tip) /\ chain = <<>>
    /\ \A x \in TxHashes : txdb[x] = NoMeta

\* The step is one of a resync that runs with no other handler interleaved.
IsoResync == iso'.n >= 1 /\ iso'.ops[iso'.n].op = "connect" /\ ev'.who = "connect"

\* The resync, from local tip height t.tgt to remote tip height t.rh, calls
\* indexBlock for the next height in turn, none skipped, the first on the
\* tip it loaded and each later one with the blocks before it indexed and a
\* tip record written.
ResyncCalls ==
    ev'.op = "scan.indexBlock" =>
        \A t \in BagToSet(tasks) : t.kind = "connect" =>
            /\ ev'.res = "begun"
            /\ ev'.h = t.ht /\ t.ht \in (t.tgt + 1)..t.rh
            /\ \A h \in (t.tgt + 1)..(t.ht - 1) : Resolves(txdb, chain[h])
            /\ ev'.h = t.tgt + 1 => tip.height = t.tgt
            /\ ev'.h > t.tgt + 1 => dbTip /= NoRaw

\* The resync ends without error.
ResyncEnds ==
    /\ ev'.chan = "none"
    /\ \E t \in BagToSet(tasks) : t.kind = "connect"
    /\ \A t \in BagToSet(tasks') : t.kind /= "connect"

\* The tip is the chain's entry at the remote tip height, and every
\* transaction of the blocks above the local tip height resolves.
CaughtUp(t) ==
    /\ tip' = fromEntry(Entry(ChainTip))
    /\ \A h \in (t.tgt + 1)..t.rh : Resolves(txdb', chain[h])

RollbackPcs == {"rb_getEntry", "rb_getBlock", "rb_setTip"}

\* C18: a resync that runs on its own with the remote tip height R below the
\* local tip height L rolls back to R: the step that ends its rollback ends
\* the resync without error, with the tip at height R and with no record of
\* a block above R left in the store.
C18_ResyncRollsBack ==
    [][\A t \in BagToSet(tasks) :
          (IsoResync /\ t.kind = "connect" /\ t.pc \in RollbackPcs
              /\ \A u \in BagToSet(tasks') : u.kind = "connect" => u.pc \notin RollbackPcs) =>
             /\ ev'.chan = "none"
             /\ \A u \in BagToSet(tasks') : u.kind /= "connect"
             /\ tip'.height = t.rh
             /\ \A x \in TxHashes : txdb'[x] = NoMeta \/ txdb'[x].height <= t.rh]_vars

\* The handler returned at once without an error, and neither the store nor
\* the tip changed.
Skipped ==
    /\ ev'.res = "skip" /\ ev'.chan = "none"
    /\ tasks' = tasks /\ errored' = errored
    /\ UNCHANGED <<store, tip>>

\* C19: a 'block connect' notification for a block below the tip and a
\* 'block disconnect' notification for a block above the tip are skipped:
\* the handler returns without an error, no record is written or deleted,
\* and the tip record and the tip in memory stay as they are.
C19_StaleSkipped ==
    [][/\ (ev'.op = "indexBlock" /\ ev'.h < tip.height) => Skipped
       /\ (ev'.op = "unindexBlock" /\ ev'.h > tip.height) => Skipped]_vars

\* A block at height 1 was notified as connected to an engine whose tip is
\* at height 2, and skipped.
C19_Witness ==
    /\ ev.op = "indexBlock" /\ ev.res = "skip" /\ ev.h = 1
    /\ tip.height = 2 /\ dbTip = toRaw(tip) /\ txdb /= EmptyTx

\* The tip record names the highest block that has records in the store.
TipIsHighest(raw, db) ==
    /\ raw /= NoRaw
    /\ fromRaw(raw).height > 0 => Resolves(db, fromRaw(raw).hash)
    /\ \A x \in TxHashes : db[x] = NoMeta \/ db[x].height <= fromRaw(raw).height

\* The step commits the batch of an unindexBlock that rollback called.
RollbackCommit ==
    \E t \in Moved : t.kind \in {"chainReset", "connect"} /\ t.pc = "ub_setTip"

\* A rollback to height h below the tip ran to its end on its own.
RolledBack(h) ==
    /\ iso.n = 1 /\ ~iso.running
    /\ iso.ops[1].op = "chainReset" /\ iso.ops[1].arg[1] = h
    /\ h < iso.pre.height

\* C20: after each batch that rollback's unindexBlock commits, the tip
\* record names the highest block whose records are still in the store; and
\* a rollback to a target below the tip that runs to its end, as a first
\* attempt or as the retry after an interrupted one, ends without error with
\* the tip at the target and no record above the target.
C20_RollbackRetry ==
    /\ [][RollbackCommit => TipIsHighest(dbTip', txdb')]_vars
    /\ [](\A h \in Heights : RolledBack(h) =>
              /\ iso.ops[1].res \notin Errors
              /\ tip.height = h /\ dbTip = toRaw(tip)
              /\ \A x \in TxHashes : txdb[x] = NoMeta \/ txdb[x].height <= h)

\* Every record of db is of a block of the main chain at a height up to h.
OnChain(db, h) ==
    \A x \in TxHashes :
        db[x] = NoMeta \/ (/\ db[x].height <= h /\ db[x].height \in 1..Len(chain)
                           /\ db[x].hash = chain[db[x].height])

\* What a crash between indexBlock's batch and its tip write leaves, with
\* the tip record at height h: the records of block b at height h + 1, and
\* besides them only records of the main chain up to h.
Orphans(db, h, b) ==
    /\ b[1] = h + 1 /\ Resolves(db, b)
    /\ OnChain([x \in TxHashes |->
                   IF \E i \in 1..Len(Txs(b)) : Txs(b)[i] = x THEN NoMeta ELSE db[x]], h)

Resumed == BagToSet(BagOfAll(Core, tasks) (-) BagOfAll(Core, tasks'))

\* C22: when client.getBlock returns no block for the hash that rollback(h),
\* h below the tip height, is positioned at, rollback leaves its loop
\* without an error and without touching a record, and its setTip then
\* persists the target entry at height h as the tip, the records staying as
\* they are.
C22_MissingBlockBreaks ==
    [][/\ ev'.op = "rollback.noBlock" =>
             /\ ev'.res = "ok" /\ ev'.chan = "none" /\ errored' = errored
             /\ UNCHANGED <<store, tip>>
             /\ \E t \in Moved : t.pc = "rb_setTip" /\ t.st.height = t.tgt
                                   /\ t.st = fromEntry(Entry(t.e))
       /\ \A t \in Resumed :
             t.pc = "rb_setTip" =>
                 /\ tip' = t.st /\ tip'.height = t.tgt /\ dbTip' = toRaw(tip')
                 /\ txdb' = txdb /\ ev'.chan = "none"]_vars

\* With blocks 1 and 2 indexed, a rollback to height 1 that ran on its own
\* and found no block ended without error with the tip at height 1 and the
\* records of block 2 still in the store.
C22_Witness ==
    /\ iso.n = 1 /\ ~iso.running
    /\ iso.ops[1].op = "chainReset" /\ iso.ops[1].arg[1] = 1 /\ iso.ops[1].res = "ok"
    /\ IndexedChain(iso.pre, iso.pretx) /\ iso.pre.height = 2
    /\ tip = fromEntry(Entry(chain[1])) /\ dbTip = toRaw(tip)
    /\ txdb = iso.pretx /\ Resolves(txdb, chain[2])

\* The syncNode executions that hold the lock, and those that wait for it.
LockHolders == {t \in BagToSet(tasks) : Holds(t)}

Waiting == \E t \in BagToSet(tasks) : t.kind = "connect" /\ t.pc = "lock"

\* A syncNode execution has just been given the lock.
Acquired == \E t \in BagToSet(tasks) : t.kind = "connect" /\ t.pc = "gt_get"

\* C23: at most one syncNode execution holds the resync lock, the lock is
\* held only while one does (it is released when the execution ends, however
\* it ends), and a 'connect' handler that waits for the lock is eventually
\* given it.
C23_LockReleased ==
    /\ [](/\ Cardinality(LockHolders) <= 1
          /\ \A t \in LockHolders : CopiesIn(t, tasks) = 1
          /\ busy <=> LockHolders /= {}
          /\ Waiting => busy)
    /\ (Waiting /\ ~Acquired) ~> Acquired

\* After a resync has failed, a later 'connect' handler holds the lock and
\* runs its own resync.
C23_Witness ==
    /\ errored /\ busy
    /\ ev.who = "connect" /\ ev.op = "scan.rollback" /\ ev.chan = "none"
    /\ \E t \in BagToSet(tasks) : t.kind = "connect" /\ t.pc \in {"sc_getEntry", "rb_getEntry"}

\* C24: once the resync has run and no handler and no setTip is in flight,
\* the tip in memory is the tip that the `h` record holds.
C24_TipIsPersisted ==
    (life = "ready" /\ pendingConnect = 0 /\ tasks = EmptyBag) =>
        (dbTip /= NoRaw /\ tip = fromRaw(dbTip))

====
